---- MODULE Spec2Model ----
(***************************************************************************)
(* Model of the media-cutting utilities (ffcut.py, ffsplit.py) and of the  *)
(* clipboard watcher (clipman.py).                                         *)
(*                                                                         *)
(* Text is a sequence of one-character strings, so that the conversions of *)
(* the code (str.split, str.strip, int, str.zfill, time.isoformat) are     *)
(* computed and not assumed.                                               *)
(***************************************************************************)
EXTENDS Integers, Sequences, FiniteSets, TLC

\* ------------------------------------------------------------------ bounds

\* Most lines a configuration file holds.
MaxLines == 3
\* Most segments get_dest_name is applied to in SpecFn.
MaxCount == 150
\* Most clipboard checks of one clipman run.
MaxPolls == 4
\* Largest single-field time token parse_time is applied to in SpecFn.
MaxSeconds == 100
\* Most files given to rnsort on its command line.
MaxFiles == 3

\* ------------------------------------------------------------ str helpers

Digits == <<"0", "1", "2", "3", "4", "5", "6", "7", "8", "9">>

IsDigit(c) == \E k \in 1..10 : Digits[k] = c

DigitVal(c) == (CHOOSE k \in 1..10 : Digits[k] = c) - 1

\* Characters str.strip() removes and int() tolerates around the digits.
Whitespace == {" ", "\n"}

RECURSIVE LStrip(_)
LStrip(s) ==
    IF s # <<>> /\ Head(s) \in Whitespace THEN LStrip(Tail(s)) ELSE s

RECURSIVE RStrip(_)
RStrip(s) ==
    IF s # <<>> /\ s[Len(s)] \in Whitespace
    THEN RStrip(SubSeq(s, 1, Len(s) - 1))
    ELSE s

\* str.strip()
Strip(s) == RStrip(LStrip(s))

\* Index of the first occurrence of character c in s, 0 when there is none.
Find(s, c) ==
    IF \E k \in 1..Len(s) : s[k] = c
    THEN CHOOSE k \in 1..Len(s) : s[k] = c /\ \A j \in 1..(k - 1) : s[j] # c
    ELSE 0

\* str.split(sep) with a one-character separator: every occurrence splits,
\* so the result is never empty and may hold empty strings.
RECURSIVE Split(_, _)
Split(s, sep) ==
    LET k == Find(s, sep) IN
    IF k = 0 THEN <<s>>
    ELSE <<SubSeq(s, 1, k - 1)>> \o Split(SubSeq(s, k + 1, Len(s)), sep)

\* Iteration over a text file: each row keeps its line terminator.
RECURSIVE FileRows(_)
FileRows(text) ==
    LET k == Find(text, "\n") IN
    IF text = <<>> THEN <<>>
    ELSE IF k = 0 THEN <<text>>
    ELSE <<SubSeq(text, 1, k)>> \o FileRows(SubSeq(text, k + 1, Len(text)))

RECURSIVE DigitsValue(_)
DigitsValue(s) ==
    IF s = <<>> THEN 0
    ELSE 10 * DigitsValue(SubSeq(s, 1, Len(s) - 1)) + DigitVal(s[Len(s)])

\* int(text): surrounding whitespace is ignored; anything but a non-empty run
\* of decimal digits raises ValueError.
PyInt(s) ==
    LET t == Strip(s) IN
    IF t # <<>> /\ \A k \in 1..Len(t) : IsDigit(t[k])
    THEN [ok |-> TRUE, err |-> "", val |-> DigitsValue(t)]
    ELSE [ok |-> FALSE, err |-> "ValueError", val |-> 0]

\* str(n) for a natural number n.
RECURSIVE PyStr(_)
PyStr(n) ==
    IF n < 10 THEN <<Digits[n + 1]>>
    ELSE PyStr(n \div 10) \o <<Digits[(n % 10) + 1]>>

\* str.zfill(width)
RECURSIVE ZFill(_, _)
ZFill(s, width) ==
    IF Len(s) >= width THEN s ELSE ZFill(<<"0">> \o s, width)

\* ------------------------------------------------------- result of a call

\* A call either returns a value or raises; an uncaught exception carries its
\* class name.
Returned(v) == [ok |-> TRUE, err |-> "", val |-> v]

Raised(e, placeholder) == [ok |-> FALSE, err |-> e, val |-> placeholder]

\* ------------------------------------------------------ ffcut: time codec

\* ffcut.parse_time: 1 to 3 colon-separated integer fields, in seconds.
ParseTimeCut(t) ==
    LET segment == Split(t, ":")
        f == [k \in 1..Len(segment) |-> PyInt(segment[k])]
    IN  IF Len(segment) > 3 THEN Raised("AssertionError", 0)
        ELSE IF \E k \in 1..Len(segment) : ~f[k].ok THEN Raised("ValueError", 0)
        ELSE IF Len(segment) = 1 THEN Returned(f[1].val)
        ELSE IF Len(segment) = 2 THEN Returned(f[1].val * 60 + f[2].val)
        ELSE Returned(f[1].val * 3600 + f[2].val * 60 + f[3].val)

\* ----------------------------------------------------- ffsplit: time codec

NoTime == [hour |-> 0, minute |-> 0, second |-> 0]

\* datetime.time(hour, minute, second): each field is range-checked.
PyTime(h, m, s) ==
    IF h \in 0..23 /\ m \in 0..59 /\ s \in 0..59
    THEN Returned([hour |-> h, minute |-> m, second |-> s])
    ELSE Raised("ValueError", NoTime)

\* ffsplit.parse_time: the same grammar, into a datetime.time.
ParseTimeSplit(t) ==
    LET segment == Split(t, ":")
        f == [k \in 1..Len(segment) |-> PyInt(segment[k])]
    IN  IF Len(segment) > 3 THEN Raised("AssertionError", NoTime)
        ELSE IF \E k \in 1..Len(segment) : ~f[k].ok THEN Raised("ValueError", NoTime)
        ELSE IF Len(segment) = 1 THEN PyTime(0, 0, f[1].val)
        ELSE IF Len(segment) = 2 THEN PyTime(0, f[1].val, f[2].val)
        ELSE PyTime(f[1].val, f[2].val, f[3].val)

\* ffsplit.t_to_td: a timedelta, here in whole seconds (parse_time never sets
\* microseconds).
t_to_td(t) == t.hour * 3600 + t.minute * 60 + t.second

Abs(x) == IF x < 0 THEN -x ELSE x

\* The difference with the abs() left out, clamped at zero.
TimeDeltaNoAbs(dt1, dt2) == IF dt2 >= dt1 THEN dt2 - dt1 ELSE 0

\* timedelta = abs(dt2 - dt1)
TimeDelta(dt1, dt2) == Abs(dt2 - dt1)

\* ffsplit.delta_time
delta_time(t1, t2) ==
    LET timedelta == TimeDelta(t_to_td(t1), t_to_td(t2))
        hours     == timedelta \div 3600
        rem       == timedelta % 3600
        minutes   == rem \div 60
        seconds   == rem % 60
    IN  IF hours > 24 THEN Raised("AssertionError", NoTime)
        ELSE PyTime(hours, minutes, seconds)

\* datetime.time.isoformat() with no microseconds: HH:MM:SS
isoformat(t) ==
    ZFill(PyStr(t.hour), 2) \o <<":">> \o ZFill(PyStr(t.minute), 2)
        \o <<":">> \o ZFill(PyStr(t.second), 2)

\* --------------------------------------------------- ffcut: config parser

\* The assertion weakened to "at least two tokens".
TokenCountOkCutAtLeast(splitted) == Len(splitted) >= 2

\* assert len(splitted) == 2
TokenCountOkCut(splitted) == Len(splitted) = 2

\* The assertion weakened to "end not before start".
RangeOkCutOrEqual(start, end) == end >= start

\* assert end > start
RangeOkCut(start, end) == end > start

\* One row of ffcut.parse_cfg's loop: the segment, or the exception raised.
ParseRowCut(row) ==
    LET splitted == Split(row, " ") IN
    IF ~TokenCountOkCut(splitted) THEN Raised("AssertionError", <<0, 0>>)
    ELSE LET start == ParseTimeCut(splitted[1]) IN
         IF ~start.ok THEN Raised(start.err, <<0, 0>>)
         ELSE LET end == ParseTimeCut(splitted[2]) IN
              IF ~end.ok THEN Raised(end.err, <<0, 0>>)
              ELSE IF ~RangeOkCut(start.val, end.val)
                   THEN Raised("AssertionError", <<0, 0>>)
                   ELSE Returned(<<start.val, end.val>>)

\* The loop with every raising turn skipped instead of ending the call.
CollectSkipping(rows, res) ==
    LET good == SelectSeq(rows, LAMBDA r : r.ok) IN
    Returned(res \o [k \in 1..Len(good) |-> good[k].val])

\* A loop that appends what each turn yields to res: the first turn that
\* raises ends the call, and the list built so far is dropped with it.
RECURSIVE Collect(_, _)
Collect(rows, res) ==
    IF rows = <<>> THEN Returned(res)
    ELSE IF ~Head(rows).ok THEN Raised(Head(rows).err, <<>>)
    ELSE Collect(Tail(rows), Append(res, Head(rows).val))

NotBlank(x) == Strip(x) # <<>>

\* ffcut.parse_cfg, on the content of the file at cfgpath.
ParseCfgCut(text) ==
    LET rows == SelectSeq(FileRows(text), NotBlank) IN
    Collect([k \in 1..Len(rows) |-> ParseRowCut(rows[k])], <<>>)

\* ------------------------------------------------- ffsplit: config parser

\* assert len(times) == 2 or len(times) == 3
TokenCountOkSplit(times) == Len(times) = 2 \/ Len(times) = 3

\* One row of ffsplit.parse_cfg's loop: (start, end, prefix).
ParseRowSplit(config) ==
    LET times == Split(config, " ")
        none  == <<NoTime, NoTime, <<>>>>
    IN
    IF ~TokenCountOkSplit(times) THEN Raised("AssertionError", none)
    ELSE LET prefix == IF Len(times) = 2 THEN <<>> ELSE times[3] \o <<"-">>
             start  == ParseTimeSplit(times[1])
         IN  IF ~start.ok THEN Raised(start.err, none)
             ELSE LET end == ParseTimeSplit(times[2]) IN
                  IF ~end.ok THEN Raised(end.err, none)
                  ELSE Returned(<<start.val, end.val, prefix>>)

\* ffsplit.parse_cfg, on the content of the configuration file.
ParseCfgSplit(text) ==
    LET rows == SelectSeq(Split(text, "\n"), NotBlank) IN
    Collect([k \in 1..Len(rows) |-> ParseRowSplit(rows[k])], <<>>)

\* ------------------------------------------- ffcut: command synthesizer

\* round(n / 2) as Python 3 computes it: a tie goes to the even neighbour.
RoundHalf(n) ==
    IF n % 2 = 0 THEN n \div 2
    ELSE IF (n \div 2) % 2 = 0 THEN n \div 2 ELSE (n \div 2) + 1

\* The count with the division by two left out.
ConcatCountWhole(res) == Len(res)

\* count = round(len(res) / 2)
ConcatCount(res) == RoundHalf(Len(res))

\* The two fragments build_filter emits for segment number i (0-based):
\* [0:v]trim=start:end,setpts=PTS-STARTPTS[v{i}]; and its audio twin.
SegmentFragments(segment, i) ==
    << [in |-> "0:v", filter |-> "trim", start |-> segment[1],
        end |-> segment[2], label |-> <<"v", i>>],
       [in |-> "0:a", filter |-> "atrim", start |-> segment[1],
        end |-> segment[2], label |-> <<"a", i>>] >>

RECURSIVE Fragments(_, _)
Fragments(cfg_, i) ==
    IF cfg_ = <<>> THEN <<>>
    ELSE SegmentFragments(Head(cfg_), i) \o Fragments(Tail(cfg_), i + 1)

\* streams_id: [v0][a0][v1][a1]... for i in range(count)
RECURSIVE StreamsId(_, _)
StreamsId(i, count) ==
    IF i >= count THEN <<>>
    ELSE << <<"v", i>>, <<"a", i>> >> \o StreamsId(i + 1, count)

\* ffcut.build_filter: the fragments, then the concat node.
build_filter(cfg_) ==
    LET res   == Fragments(cfg_, 0)
        count == ConcatCount(res)
    IN  [fragments |-> res,
         concat    |-> [inputs |-> StreamsId(0, count), n |-> count,
                        v |-> 1, a |-> 1, label |-> "out"]]

\* bitrate = get_bitrate(src) - 128000
AudioHeadroom == 128000

\* ffcut.build_cmd, given what get_bitrate returned.
build_cmd(cfg_, source_bitrate) ==
    [prog    |-> "ffmpeg",
     filter  |-> build_filter(cfg_),
     map     |-> "out",
     bitrate |-> source_bitrate - AudioHeadroom]

\* ----------------------------------------- ffsplit: command synthesizer

\* Index of the last occurrence of character c in s, 0 when there is none.
RFind(s, c) ==
    IF \E k \in 1..Len(s) : s[k] = c
    THEN CHOOSE k \in 1..Len(s) : s[k] = c /\ \A j \in (k + 1)..Len(s) : s[j] # c
    ELSE 0

\* os.path.split(path)[-1]
BaseName(path) == SubSeq(path, RFind(path, "/") + 1, Len(path))

\* os.path.splitext(filename), for a file name without directories: the
\* extension starts at the last dot, unless that dot leads the name.
SplitExt(filename) ==
    LET k == RFind(filename, ".") IN
    IF k <= 1 THEN <<filename, <<>>>>
    ELSE <<SubSeq(filename, 1, k - 1), SubSeq(filename, k, Len(filename))>>

\* os.path.join(a, b)
PathJoin(a, b) ==
    IF b # <<>> /\ Head(b) = "/" THEN b
    ELSE IF a = <<>> \/ a[Len(a)] = "/" THEN a \o b
    ELSE a \o <<"/">> \o b

\* index = str(i).zfill(2)
DestIndex(i) == ZFill(PyStr(i), 2)

\* ffsplit.get_dest_name
get_dest_name(src, i, dest, prefix) ==
    LET index    == DestIndex(i)
        filename == BaseName(src)
        name     == SplitExt(filename)[1]
        ext      == SplitExt(filename)[2]
    IN  PathJoin(dest, prefix \o name \o <<"-">> \o index \o ext)

NoCommand == [prog |-> "", ss |-> <<>>, i |-> <<>>, to |-> <<>>, c |-> "", out |-> <<>>]

\* One turn of consutruct_commands' loop, i the 0-based index of config.
ConstructCommand(src, config, i, dest) ==
    LET start == config[1]
        end   == config[2]
        delta == delta_time(start, end)
    IN  IF ~delta.ok THEN Raised(delta.err, NoCommand)
        ELSE Returned([prog |-> "ffmpeg",
                       ss   |-> isoformat(start),
                       i    |-> src,
                       to   |-> isoformat(delta.val),
                       c    |-> "copy",
                       out  |-> get_dest_name(src, i, dest, config[3])])

\* ffsplit.consutruct_commands
consutruct_commands(src, cfg_, dest) ==
    Collect([k \in 1..Len(cfg_) |-> ConstructCommand(src, cfg_[k], k - 1, dest)],
              <<>>)

\* ---------------------------------------------------- rnsort: index padding

\* magnitude = math.floor(math.log10(n)) + 1 for n >= 1: the number of
\* decimal digits of n.
RECURSIVE Magnitude(_)
Magnitude(n) == IF n < 10 THEN 1 ELSE 1 + Magnitude(n \div 10)

\* pad = max(magnitude, 2)
Pad(n) == IF Magnitude(n) >= 2 THEN Magnitude(n) ELSE 2

\* ------------------------------------------------------------------ inputs

\* Configuration lines the model draws from: blank, whitespace only, valid for
\* both utilities, end before start, a single field of 60 or more, equal
\* times, too many and too few tokens (one of them after a leading space),
\* too many fields, not a number.
LinePool ==
    { <<>>,
      <<" ">>,
      <<"1", "0", " ", "2", "0">>,
      <<"1", ":", "3", "0", " ", "2", ":", "0", "0">>,
      <<"0", " ", "2", "3", ":", "5", "9", ":", "5", "9">>,
      <<"0", ":", "1", "0", " ", "0", ":", "0", "5">>,
      <<"0", ":", "1", "0", " ", "0", ":", "0", "5", " ", "x">>,
      <<"9", "0", " ", "9", "5">>,
      <<"7", " ", "7">>,
      <<"0", ":", "0", "0", " ", "0", ":", "1", "0", " ", "f", " ", "b">>,
      <<"5">>,
      <<" ", "5">>,
      <<"1", ":", "2", ":", "3", ":", "4", " ", "5">>,
      <<"a", " ", "5">> }

\* The text of a file with the given lines, each ended by a newline.
RECURSIVE FileText(_)
FileText(lines) ==
    IF lines = <<>> THEN <<>>
    ELSE Head(lines) \o <<"\n">> \o FileText(Tail(lines))

ConfigTexts ==
    { FileText(ls) : ls \in UNION { [1..n -> LinePool] : n \in 0..MaxLines } }

\* <FILE> and [DEST] of the command line.
SrcFile == <<"a", ".", "m", "p", "4">>

DestDir == <<"e", "x", "p", "o", "r", "t">>

\* bit_rate values ffprobe may report.
Bitrates == {100000, 5000000}

\* Exit statuses of an external process.
Statuses == {0, 1}

\* Clipboard contents xclip may print.
ClipContents == {"", "a", "b"}

\* ------------------------------------------------------------------- state

VARIABLES
    util,       \* which script runs: "ffcut" or "ffsplit"
    cfgText,    \* content of the configuration file
    pc,         \* position of main
    raised,     \* class of the uncaught exception that ended main, or ""
    cfg,        \* what parse_cfg returned
    cmd,        \* the commands built (ffcut builds one)
    procs,      \* external processes started so far, with their exit status
    nextCmd,    \* ffsplit: index in cmd of the next command to run
    exitCode,   \* exit code of the script, -1 while it runs
    stderr,     \* whether anything was written to standard error
    fnName,     \* SpecFn: the function applied
    fnArg,      \* SpecFn: its arguments
    fnOut,      \* SpecFn: what it returned
    fnDone,     \* SpecFn: whether it was applied
    clipPc,     \* clipman: position of poll_clipboard / main's loop
    buf,        \* clipman: poll_clipboard's buf
    out,        \* clipman: poll_clipboard's out
    file,       \* clipman: the texts appended to the destination file
    observed,   \* clipman: the clipboard contents seen, one per check
    rnPc,       \* rnsort: position of main
    rnArgv,     \* rnsort: the file names given on the command line
    files,      \* rnsort: sorted(sys.argv[1:])
    dest,       \* rnsort: the new names, one per file
    rnNext,     \* rnsort: index of the next (old, new) pair to rename
    rnDir,      \* rnsort: the working directory, name -> the input file it holds
    rnExit,     \* rnsort: exit code of the script, -1 while it runs
    rnPosix     \* rnsort: whether os.rename replaces an existing target

cutVars == <<util, cfgText, pc, raised, cfg, cmd, procs, nextCmd, exitCode, stderr>>

fnVars == <<fnName, fnArg, fnOut, fnDone>>

clipVars == <<clipPc, buf, out, file, observed>>

rnVars == <<rnPc, rnArgv, files, dest, rnNext, rnDir, rnExit, rnPosix>>

vars == <<cutVars, fnVars, clipVars, rnVars>>

CutIdle ==
    /\ util = "" /\ cfgText = <<>> /\ pc = "idle" /\ raised = "" /\ cfg = <<>>
    /\ cmd = <<>> /\ procs = <<>> /\ nextCmd = 1 /\ exitCode = -1
    /\ stderr = FALSE

FnIdle == fnName = "" /\ fnArg = <<>> /\ fnOut = <<>> /\ fnDone = FALSE

ClipIdle ==
    clipPc = "idle" /\ buf = "" /\ out = "" /\ file = <<>> /\ observed = <<>>

RnIdle ==
    /\ rnPc = "idle" /\ rnArgv = {} /\ files = <<>> /\ dest = <<>>
    /\ rnNext = 1 /\ rnDir = <<>> /\ rnExit = -1 /\ rnPosix = TRUE

\* ------------------------------------------- the cutting utilities' main

Init ==
    /\ util \in {"ffcut", "ffsplit"}
    /\ cfgText \in ConfigTexts
    /\ pc = "start"
    /\ raised = ""
    /\ cfg = <<>>
    /\ cmd = <<>>
    /\ procs = <<>>
    /\ nextCmd = 1
    /\ exitCode = -1
    /\ stderr = FALSE
    /\ FnIdle
    /\ ClipIdle
    /\ RnIdle

\* sys.exit(1) after a message on standard error.
ExitWithMessage ==
    /\ pc' = "exited"
    /\ exitCode' = 1
    /\ stderr' = TRUE
    /\ UNCHANGED raised

\* An exception nothing catches: the interpreter prints the traceback on
\* standard error and exits with code 1.
Uncaught(e) ==
    /\ pc' = "exited"
    /\ exitCode' = 1
    /\ stderr' = TRUE
    /\ raised' = e

\* main: the required <FILE> argument.
ReadArgs ==
    /\ pc = "start"
    /\ \E given \in BOOLEAN :
        IF given
        THEN /\ pc' = "args"
             /\ UNCHANGED <<exitCode, stderr, raised>>
        ELSE ExitWithMessage
    /\ UNCHANGED <<util, cfgText, cfg, cmd, procs, nextCmd>>
    /\ UNCHANGED <<fnVars, clipVars, rnVars>>

parse_cfg(u, text) == IF u = "ffcut" THEN ParseCfgCut(text) ELSE ParseCfgSplit(text)

\* main: cfg = parse_cfg(...)
ParseConfig ==
    /\ pc = "args"
    /\ LET r == parse_cfg(util, cfgText) IN
        IF r.ok
        THEN /\ cfg' = r.val
             /\ pc' = "parsed"
             /\ UNCHANGED <<exitCode, stderr, raised>>
        ELSE /\ Uncaught(r.err)
             /\ UNCHANGED cfg
    /\ UNCHANGED <<util, cfgText, cmd, procs, nextCmd>>
    /\ UNCHANGED <<fnVars, clipVars, rnVars>>

\* ffcut.main: if len(cfg) == 0: ... sys.exit(1)
CheckEmpty ==
    /\ pc = "parsed"
    /\ util = "ffcut"
    /\ IF Len(cfg) = 0
       THEN ExitWithMessage
       ELSE /\ pc' = "checked"
            /\ UNCHANGED <<exitCode, stderr, raised>>
    /\ UNCHANGED <<util, cfgText, cfg, cmd, procs, nextCmd>>
    /\ UNCHANGED <<fnVars, clipVars, rnVars>>

\* ffcut.main: cmd = build_cmd(src, cfg, dest). get_bitrate starts ffprobe
\* with check=True: a non-zero status raises CalledProcessError.
BuildCmd ==
    /\ pc = "checked"
    /\ util = "ffcut"
    /\ \E status \in Statuses, bit_rate \in Bitrates :
        /\ procs' = Append(procs, [prog |-> "ffprobe", status |-> status])
        /\ IF status = 0
           THEN /\ cmd' = <<build_cmd(cfg, bit_rate)>>
                /\ pc' = "built"
                /\ UNCHANGED <<exitCode, stderr, raised>>
           ELSE /\ Uncaught("CalledProcessError")
                /\ UNCHANGED cmd
    /\ UNCHANGED <<util, cfgText, cfg, nextCmd>>
    /\ UNCHANGED <<fnVars, clipVars, rnVars>>

\* ffcut.main: subprocess.run(cmd), then main returns.
RunCut ==
    /\ pc = "built"
    /\ util = "ffcut"
    /\ \E status \in Statuses :
        procs' = Append(procs, [prog |-> "ffmpeg", status |-> status])
    /\ pc' = "exited"
    /\ exitCode' = 0
    /\ UNCHANGED <<util, cfgText, cfg, cmd, nextCmd, stderr, raised>>
    /\ UNCHANGED <<fnVars, clipVars, rnVars>>

\* ffsplit.main: cmd = consutruct_commands(src, cfg, dest)
ConstructCommands ==
    /\ pc = "parsed"
    /\ util = "ffsplit"
    /\ LET r == consutruct_commands(SrcFile, cfg, DestDir) IN
        IF r.ok
        THEN /\ cmd' = r.val
             /\ pc' = "built"
             /\ UNCHANGED <<exitCode, stderr, raised>>
        ELSE /\ Uncaught(r.err)
             /\ UNCHANGED cmd
    /\ UNCHANGED <<util, cfgText, cfg, procs, nextCmd>>
    /\ UNCHANGED <<fnVars, clipVars, rnVars>>

\* ffsplit.main: one turn of `for c in cmd: subprocess.run(c)`. The exit
\* status is not looked at.
RunSplit ==
    /\ pc = "built"
    /\ util = "ffsplit"
    /\ nextCmd <= Len(cmd)
    /\ \E status \in Statuses :
        procs' = Append(procs, [prog |-> "ffmpeg", status |-> status])
    /\ nextCmd' = nextCmd + 1
    /\ UNCHANGED <<util, cfgText, pc, cfg, cmd, exitCode, stderr, raised>>
    /\ UNCHANGED <<fnVars, clipVars, rnVars>>

\* ffsplit.main: the loop is over, main returns.
FinishSplit ==
    /\ pc = "built"
    /\ util = "ffsplit"
    /\ nextCmd > Len(cmd)
    /\ pc' = "exited"
    /\ exitCode' = 0
    /\ UNCHANGED <<util, cfgText, cfg, cmd, procs, nextCmd, stderr, raised>>
    /\ UNCHANGED <<fnVars, clipVars, rnVars>>

Next ==
    \/ ReadArgs
    \/ ParseConfig
    \/ CheckEmpty
    \/ BuildCmd
    \/ RunCut
    \/ ConstructCommands
    \/ RunSplit
    \/ FinishSplit

Spec == Init /\ [][Next]_vars

\* ------------------------------------- the functions applied on their own

\* Time tokens: every single field up to MaxSeconds, and some with more
\* fields.
TimeTokens ==
    { PyStr(n) : n \in 0..MaxSeconds }
        \cup { <<"3", ":", "1", "2">>, <<"2", ":", "1", "2", ":", "0", "5">>,
               <<"1", ":", "6", "0">>, <<"1", ":", "2", ":", "3", ":", "4">> }

Prefixes == { <<>>, <<"x", "-">> }

NoArg == [t |-> <<>>, count |-> 0, i |-> 0, prefix |-> <<>>]

InitFn ==
    /\ CutIdle
    /\ ClipIdle
    /\ RnIdle
    /\ fnOut = <<>>
    /\ fnDone = FALSE
    /\ \/ /\ fnName \in {"ffcut.parse_time", "ffsplit.parse_time"}
          /\ \E t \in TimeTokens : fnArg = [NoArg EXCEPT !.t = t]
       \/ /\ fnName = "ffsplit.get_dest_name"
          /\ \E count \in 1..MaxCount, i \in 0..(MaxCount - 1), prefix \in Prefixes :
                /\ i < count
                /\ fnArg = [NoArg EXCEPT !.count = count, !.i = i, !.prefix = prefix]

ApplyParseTimeCut ==
    /\ fnName = "ffcut.parse_time"
    /\ ~fnDone
    /\ fnOut' = ParseTimeCut(fnArg.t)
    /\ fnDone' = TRUE
    /\ UNCHANGED <<fnName, fnArg, cutVars, clipVars, rnVars>>

ApplyParseTimeSplit ==
    /\ fnName = "ffsplit.parse_time"
    /\ ~fnDone
    /\ fnOut' = ParseTimeSplit(fnArg.t)
    /\ fnDone' = TRUE
    /\ UNCHANGED <<fnName, fnArg, cutVars, clipVars, rnVars>>

\* get_dest_name as consutruct_commands calls it for segment i of count.
ApplyGetDestName ==
    /\ fnName = "ffsplit.get_dest_name"
    /\ ~fnDone
    /\ fnOut' = get_dest_name(SrcFile, fnArg.i, DestDir, fnArg.prefix)
    /\ fnDone' = TRUE
    /\ UNCHANGED <<fnName, fnArg, cutVars, clipVars, rnVars>>

NextFn == ApplyParseTimeCut \/ ApplyParseTimeSplit \/ ApplyGetDestName

SpecFn == InitFn /\ [][NextFn]_vars

\* ----------------------------------------------------------------- clipman

InitClip ==
    /\ CutIdle
    /\ FnIdle
    /\ RnIdle
    /\ clipPc = "poll"
    /\ buf = ""
    /\ out = ""
    /\ file = <<>>
    /\ observed = <<>>

\* poll_clipboard: one check. xclip runs with check=True, so a non-zero
\* status raises CalledProcessError, which nothing catches.
Check ==
    /\ clipPc = "poll"
    /\ Len(observed) < MaxPolls
    /\ \E status \in Statuses, content \in ClipContents :
        IF status # 0
        THEN /\ clipPc' = "crashed"
             /\ UNCHANGED <<buf, out, observed>>
        ELSE /\ out' = content
             /\ observed' = Append(observed, content)
             /\ IF content # buf
                THEN buf' = content /\ clipPc' = "yield"
                ELSE UNCHANGED buf /\ clipPc' = "sleep"
    /\ UNCHANGED <<file, cutVars, fnVars, rnVars>>

\* main: append_file(dest, text) for the text poll_clipboard yielded.
AppendFile ==
    /\ clipPc = "yield"
    /\ file' = Append(file, out)
    /\ clipPc' = "sleep"
    /\ UNCHANGED <<buf, out, observed, cutVars, fnVars, rnVars>>

\* poll_clipboard: time.sleep(1), then the next turn of the loop.
Sleep ==
    /\ clipPc = "sleep"
    /\ clipPc' = "poll"
    /\ UNCHANGED <<buf, out, file, observed, cutVars, fnVars, rnVars>>

NextClip == Check \/ AppendFile \/ Sleep

SpecClip == InitClip /\ [][NextClip]_vars

\* ------------------------------------------------------------------ rnsort

\* The characters of the file names below, in code point order: sorted()
\* compares strings character by character by code point.
CharOrder == <<".", "0", "1", "2", "a", "b", "g", "j", "p", "t", "x">>

Ord(c) == CHOOSE k \in 1..Len(CharOrder) : CharOrder[k] = c

\* a < b for two strings.
RECURSIVE StrLess(_, _)
StrLess(a, b) ==
    IF b = <<>> THEN FALSE
    ELSE IF a = <<>> THEN TRUE
    ELSE IF Head(a) # Head(b) THEN Ord(Head(a)) < Ord(Head(b))
    ELSE StrLess(Tail(a), Tail(b))

\* sorted(names), for distinct names.
RECURSIVE Sorted(_)
Sorted(names) ==
    IF names = {} THEN <<>>
    ELSE LET m == CHOOSE x \in names : \A y \in names \ {x} : StrLess(x, y)
         IN  <<m>> \o Sorted(names \ {m})

\* File names the model draws the command line from.
NamePool ==
    { <<"0", "0", ".", "t", "x", "t">>,
      <<"0", "1", ".", "t", "x", "t">>,
      <<"0", "2", ".", "t", "x", "t">>,
      <<"1", ".", "t", "x", "t">>,
      <<"a", ".", "t", "x", "t">>,
      <<"b", ".", "j", "p", "g">> }

NoExt == [none |-> TRUE, ext |-> <<>>]

\* rnsort.deduce_extension: the common extension, or None.
deduce_extension(fs) ==
    IF Len(fs) = 0 THEN NoExt
    ELSE IF \E k \in 1..Len(fs) : SplitExt(fs[k])[2] # SplitExt(fs[1])[2]
    THEN NoExt
    ELSE [none |-> FALSE, ext |-> SplitExt(fs[1])[2]]

\* dest = [str(i).zfill(pad) + ext for i in range(1, len(files) + 1)]
DestNames(fs, ext) ==
    [i \in 1..Len(fs) |-> ZFill(PyStr(i), Pad(Len(fs))) \o ext]

\* The directory after os.rename(old, new) moved old's file to new, taking
\* the place of any file that had that name.
Renamed(dir, old, new) ==
    [n \in (DOMAIN dir \ {old}) \cup {new} |-> IF n = new THEN dir[old] ELSE dir[n]]

\* The files named on the command line exist in the working directory.
InitRn ==
    /\ CutIdle
    /\ FnIdle
    /\ ClipIdle
    /\ rnArgv \in {a \in SUBSET NamePool : Cardinality(a) <= MaxFiles}
    /\ rnPosix \in BOOLEAN
    /\ rnDir = [n \in rnArgv |-> n]
    /\ rnPc = "start"
    /\ files = <<>>
    /\ dest = <<>>
    /\ rnNext = 1
    /\ rnExit = -1

\* main: files = sorted(sys.argv[1:]), the two checks, and the new names.
Plan ==
    /\ rnPc = "start"
    /\ files' = Sorted(rnArgv)
    /\ IF Len(files') <= 1 \/ deduce_extension(files').none
       THEN /\ rnPc' = "exited"
            /\ rnExit' = 1
            /\ UNCHANGED dest
       ELSE /\ dest' = DestNames(files', deduce_extension(files').ext)
            /\ rnPc' = "confirm"
            /\ UNCHANGED rnExit
    /\ UNCHANGED <<rnArgv, rnNext, rnDir, rnPosix, cutVars, fnVars, clipVars>>

\* main: res = input(...); anything whose lower() is not 'y' cancels.
Confirm ==
    /\ rnPc = "confirm"
    /\ \E res \in {"y", "Y", "n", ""} :
        IF res \in {"y", "Y"}
        THEN rnPc' = "rename" /\ UNCHANGED rnExit
        ELSE rnPc' = "exited" /\ rnExit' = 1
    /\ UNCHANGED <<rnArgv, files, dest, rnNext, rnDir, rnPosix>>
    /\ UNCHANGED <<cutVars, fnVars, clipVars>>

\* main: one turn of `for (old, new) in zip(files, dest): os.rename(old, new)`.
\* A missing source raises FileNotFoundError. An existing target is replaced
\* on POSIX and raises FileExistsError on Windows; renaming a file to its own
\* name changes nothing.
Rename ==
    /\ rnPc = "rename"
    /\ rnNext <= Len(files)
    /\ LET old == files[rnNext]
           new == dest[rnNext]
       IN  IF old \notin DOMAIN rnDir
              \/ (~rnPosix /\ new # old /\ new \in DOMAIN rnDir)
           THEN /\ rnPc' = "exited"
                /\ rnExit' = 1
                /\ UNCHANGED <<rnDir, rnNext>>
           ELSE /\ rnDir' = Renamed(rnDir, old, new)
                /\ rnNext' = rnNext + 1
                /\ UNCHANGED <<rnPc, rnExit>>
    /\ UNCHANGED <<rnArgv, files, dest, rnPosix, cutVars, fnVars, clipVars>>

\* main: print('Done'), and main returns.
Done ==
    /\ rnPc = "rename"
    /\ rnNext > Len(files)
    /\ rnPc' = "exited"
    /\ rnExit' = 0
    /\ UNCHANGED <<rnArgv, files, dest, rnNext, rnDir, rnPosix>>
    /\ UNCHANGED <<cutVars, fnVars, clipVars>>

NextRn == Plan \/ Confirm \/ Rename \/ Done

SpecRn == InitRn /\ [][NextRn]_vars

\* ------------------------------------------------------------------ claims

\* The non-blank rows a utility's parse_cfg loops over, and what each yields.
NonBlankRows(u, text) ==
    IF u = "ffcut" THEN SelectSeq(FileRows(text), NotBlank)
    ELSE SelectSeq(Split(text, "\n"), NotBlank)

RowResult(u, row) == IF u = "ffcut" THEN ParseRowCut(row) ELSE ParseRowSplit(row)

SomeRowRejected ==
    \E k \in 1..Len(NonBlankRows(util, cfgText)) :
        ~RowResult(util, NonBlankRows(util, cfgText)[k]).ok

\* C1: in ffsplit, the commands run form a prefix of the list that ends at
\* the first failing command: no command is started after one that exited
\* with a non-zero status.
C1_StopsAtFirstFailure ==
    util = "ffsplit" =>
        \A k \in 1..Len(procs) : k < Len(procs) => procs[k].status = 0

\* C2: in both utilities an external process is only ever started after the
\* whole configuration was parsed with no row rejected: the segment list in
\* use then holds exactly one segment per non-blank row, in order.
C2_ParseBeforeDispatch ==
    procs # <<>> =>
        LET rows == NonBlankRows(util, cfgText) IN
        /\ raised \notin {"AssertionError", "ValueError"}
        /\ Len(cfg) = Len(rows)
        /\ \A k \in 1..Len(rows) :
            /\ RowResult(util, rows[k]).ok
            /\ cfg[k] = RowResult(util, rows[k]).val

\* C2 witness: a run that parsed a first valid row, met a rejected row, and
\* ended without starting any process.
C2_Witness ==
    /\ pc = "exited"
    /\ raised \in {"AssertionError", "ValueError"}
    /\ procs = <<>>
    /\ Len(NonBlankRows(util, cfgText)) >= 2
    /\ RowResult(util, NonBlankRows(util, cfgText)[1]).ok
    /\ SomeRowRejected

\* C3: a configuration with no usable segment ends the run in an error state
\* (message on stderr, exit code 1), and no plan is ever built from zero
\* segments.
C3_EmptyConfigIsError ==
    /\ (pc = "exited" /\ NonBlankRows(util, cfgText) = <<>>)
          => (exitCode = 1 /\ stderr)
    /\ ~(pc = "built" /\ Len(cfg) = 0)

\* The index rendered in an output path: what stands between the last "-" of
\* the path's stem and the extension of the source file.
IndexOf(path) ==
    LET stem == SubSeq(path, 1, Len(path) - Len(SplitExt(SrcFile)[2])) IN
    SubSeq(stem, RFind(stem, "-") + 1, Len(stem))

\* C4: the index in every output file name of the independent-trim plan has
\* width max(2, floor(log10(count)) + 1), count being the number of segments:
\* the width the bulk renamer pads to.
C4_IndexWidth ==
    (fnDone /\ fnName = "ffsplit.get_dest_name") =>
        Len(IndexOf(fnOut)) = Pad(fnArg.count)

IsNumber(t) == t # <<>> /\ \A k \in 1..Len(t) : IsDigit(t[k])

\* C5: in both utilities parse_time reads a single-field token n as exactly n
\* seconds, for every n >= 0, also for n >= 60.
C5_SoleFieldIsRawSeconds ==
    (fnDone /\ IsNumber(fnArg.t)) =>
        /\ fnName = "ffcut.parse_time" =>
              (fnOut.ok /\ fnOut.val = DigitsValue(fnArg.t))
        /\ fnName = "ffsplit.parse_time" =>
              (fnOut.ok /\ fnOut.val.hour * 3600 + fnOut.val.minute * 60
                              + fnOut.val.second = DigitsValue(fnArg.t))

\* A non-blank row with 0, 1, or 4 or more tokens, whether a token is a piece
\* between two single spaces or a maximal run of non-blank characters.
BadTokenCount(row) ==
    LET pieces == Split(row, " ")
        words  == SelectSeq(pieces, NotBlank)
    IN  \/ Len(pieces) < 2 \/ Len(pieces) >= 4
        \/ Len(words) < 2 \/ Len(words) >= 4

\* C6: in both utilities, a configuration with a non-blank line of 0, 1, or 4
\* or more tokens never gets past parse_cfg, whatever its other lines are: no
\* segment list is returned, nothing is built or started, and the run ends
\* with exit code 1.
C6_BadTokenCountFails ==
    (\E k \in 1..Len(NonBlankRows(util, cfgText)) :
            BadTokenCount(NonBlankRows(util, cfgText)[k])) =>
        /\ pc \in {"start", "args", "exited"}
        /\ cfg = <<>> /\ cmd = <<>> /\ procs = <<>>
        /\ pc = "exited" => (exitCode = 1 /\ stderr)

\* C6 witness: parse_cfg raised on a 4-token line that stands between two
\* lines the utility accepts.
C6_Witness ==
    LET rows == NonBlankRows(util, cfgText) IN
    /\ pc = "exited"
    /\ raised = "AssertionError"
    /\ Len(rows) >= 3
    /\ RowResult(util, rows[1]).ok
    /\ Len(Split(rows[2], " ")) >= 4
    /\ RowResult(util, rows[3]).ok

\* A row of two time tokens whose end is not after its start.
EndNotAfterStart(row) ==
    LET splitted == Split(row, " ") IN
    /\ Len(splitted) = 2
    /\ ParseTimeCut(splitted[1]).ok
    /\ ParseTimeCut(splitted[2]).ok
    /\ ParseTimeCut(splitted[2]).val <= ParseTimeCut(splitted[1]).val

\* C7: in ffcut every segment parse_cfg returns, and every trim/atrim fragment
\* built from it, has end > start; a configuration with a row whose end is
\* equal to or before its start builds no command and starts no process.
C7_EndAfterStart ==
    util = "ffcut" =>
        /\ \A k \in 1..Len(cfg) : cfg[k][2] > cfg[k][1]
        /\ \A c \in 1..Len(cmd) :
              \A j \in 1..Len(cmd[c].filter.fragments) :
                  cmd[c].filter.fragments[j].end > cmd[c].filter.fragments[j].start
        /\ (\E k \in 1..Len(NonBlankRows(util, cfgText)) :
                EndNotAfterStart(NonBlankRows(util, cfgText)[k]))
              => (cfg = <<>> /\ cmd = <<>> /\ procs = <<>>)

\* C7 witness: ffcut's parse_cfg accepted a first row and raised on a later
\* row whose end equals its start.
C7_Witness ==
    LET rows == NonBlankRows(util, cfgText) IN
    /\ util = "ffcut"
    /\ pc = "exited"
    /\ raised = "AssertionError"
    /\ Len(rows) >= 2
    /\ RowResult(util, rows[1]).ok
    /\ EndNotAfterStart(rows[2])
    /\ ParseTimeCut(Split(rows[2], " ")[1]).val = ParseTimeCut(Split(rows[2], " ")[2]).val

\* Seconds a rendered HH:MM:SS time-offset argument stands for.
IsoSeconds(text) ==
    LET f == Split(text, ":") IN
    DigitsValue(f[1]) * 3600 + DigitsValue(f[2]) * 60 + DigitsValue(f[3])

SecondsOf(t) == t.hour * 3600 + t.minute * 60 + t.second

Distance(a, b) == IF a >= b THEN a - b ELSE b - a

\* C8: consutruct_commands returns one command per segment, in input order:
\* command i seeks to start_i, is bounded by |end_i - start_i| (at most 24
\* hours), and writes to the path that carries index i.
C8_OneCommandPerSegment ==
    (util = "ffsplit" /\ (pc = "built" \/ (pc = "exited" /\ exitCode = 0))) =>
        /\ Len(cmd) = Len(cfg)
        /\ \A k \in 1..Len(cfg) :
            /\ IsoSeconds(cmd[k].ss) = SecondsOf(cfg[k][1])
            /\ IsoSeconds(cmd[k].to)
                  = Distance(SecondsOf(cfg[k][1]), SecondsOf(cfg[k][2]))
            /\ IsoSeconds(cmd[k].to) <= 24 * 3600
            /\ IsNumber(IndexOf(cmd[k].out))
            /\ DigitsValue(IndexOf(cmd[k].out)) = k - 1

\* C8 witness: commands were built for two or more segments, one of them
\* with its end before its start.
C8_Witness ==
    /\ util = "ffsplit"
    /\ pc = "built"
    /\ Len(cmd) >= 2
    /\ \E k \in 1..Len(cfg) : SecondsOf(cfg[k][2]) < SecondsOf(cfg[k][1])

\* C9: for n >= 1 segments build_filter emits exactly one fragment labelled
\* v{i} and one labelled a{i} for each i in 0..n-1, cut at segment i's times;
\* the concat node has n = the segment count and consumes
\* [v0][a0][v1][a1]... in segment order; every label it consumes is defined
\* by a fragment and every defined label is consumed exactly once.
C9_LabelsPairUp ==
    (util = "ffcut" /\ cmd # <<>>) =>
        LET f == cmd[1].filter
            n == Len(cfg)
            Defs(l) == {j \in 1..Len(f.fragments) : f.fragments[j].label = l}
            Uses(l) == {j \in 1..Len(f.concat.inputs) : f.concat.inputs[j] = l}
        IN  /\ n >= 1
            /\ Len(f.fragments) = 2 * n
            /\ f.concat.n = n
            /\ Len(f.concat.inputs) = 2 * n
            /\ \A i \in 0..(n - 1) :
                /\ Cardinality(Defs(<<"v", i>>)) = 1
                /\ Cardinality(Defs(<<"a", i>>)) = 1
                /\ f.concat.inputs[2 * i + 1] = <<"v", i>>
                /\ f.concat.inputs[2 * i + 2] = <<"a", i>>
                /\ \A j \in Defs(<<"v", i>>) \cup Defs(<<"a", i>>) :
                    /\ f.fragments[j].start = cfg[i + 1][1]
                    /\ f.fragments[j].end = cfg[i + 1][2]
            /\ \A j \in 1..Len(f.concat.inputs) :
                  Cardinality(Defs(f.concat.inputs[j])) = 1
            /\ \A j \in 1..Len(f.fragments) :
                  Cardinality(Uses(f.fragments[j].label)) = 1

\* C9 witness: ffcut built its command from two or more segments.
C9_Witness == util = "ffcut" /\ pc = "built" /\ Len(cfg) >= 2

\* C10: every value poll_clipboard yields, and so every text appended to the
\* file, is non-empty and differs from the content seen at the previous check.
C10_YieldsNewNonEmpty ==
    /\ clipPc = "yield" =>
          /\ out # ""
          /\ Len(observed) >= 2 => out # observed[Len(observed) - 1]
    /\ \A k \in 1..Len(file) : file[k] # ""

\* C11: once the user confirmed, no rename takes the name of an input file
\* that was not renamed yet, so every input file is still in the directory
\* under some name; after the run there are as many files as inputs, carrying
\* exactly the 1-based zero-padded names.
C11_NoInputOverwritten ==
    /\ \A f \in rnArgv : \E n \in DOMAIN rnDir : rnDir[n] = f
    /\ (rnPc = "exited" /\ rnExit = 0) =>
          /\ Cardinality(DOMAIN rnDir) = Cardinality(rnArgv)
          /\ DOMAIN rnDir = {dest[k] : k \in 1..Len(dest)}

====
